---- MODULE Spec2Model ----
(***************************************************************************)
(* PixelPress: the size-targeting compression engine                       *)
(* (src/lib/compressor.ts, and its inlined copy in                         *)
(* src/app/api/compress/optimized-route.ts) and the POST handler that      *)
(* admits requests, consults the result cache and runs the engine.         *)
(*                                                                         *)
(* Byte counts are scaled: an encoded buffer is a few "bytes" long, and    *)
(* the configured target, tolerance and memory ceiling are scaled with it. *)
(* Scale factors are in tenths (9 is 0.9, FullScale is 1.0).               *)
(***************************************************************************)
EXTENDS Integers, Sequences, FiniteSets, TLC

\* ---------------------------------------------------------------- bounds
\* COMPRESSION_CONFIG.targetBytes (config.ts:8, 1_000), scaled.
targetBytes == 3
\* COMPRESSION_CONFIG.toleranceBalanced (config.ts:9, 5_000), scaled.
toleranceBalanced == 1
\* COMPRESSION_CONFIG.memoryLimitPerJob (config.ts:15, 100 MiB), scaled.
memoryLimitPerJob == 8
\* How many of the candidate scale factors of progressiveScaling are modelled.
MaxScales == 1
\* MAX_CONCURRENT_JOBS (optimized-route.ts:14, 20; route.ts:15, 5), scaled.
MAX_CONCURRENT_JOBS == 2
\* How many requests the server receives.
NumRequests == 3
\* How many distinct (bytes, format, mode) triples the requests carry.
NumKeys == 1
\* How many distinct buffers compress can return for one input.
NumOutputs == 2
\* How many distinct keys the callers of CompressionCache use.
NumCacheKeys == 2
\* CACHE_CONFIG.ttl (config.ts:37, 24 h), in clock ticks.
CACHE_CONFIG_ttl == 2
\* How many calls of CompressionCache.get are made.
MaxGets == 2
\* CACHE_TTL (optimized-route.ts:97, 24 h), in clock ticks.
CACHE_TTL == 1
\* The last value Date.now() returns.
MaxClock == 3
\* The period of the cache sweep (optimized-route.ts:637, 100 jobs), scaled.
CleanupEvery == 2
\* The last value Date.now() returns to a CompressionCache.
CacheMaxClock == 4
\* The longest input buffer of generateKey, in bytes, and its largest byte.
MaxBytes == 2
MaxByte == 1
\* The number of digests md5 has (2^128), scaled.
NumDigests == 3

\* ------------------------------------------------------ program constants
toleranceExact == 0
\* What get returns for want of a valid entry.
null == 0
FullScale == 10
NoScale == 0

Modes == {"exact", "balanced"}
\* "lib" is src/lib/compressor.ts, "route" the copy in optimized-route.ts.
Variants == {"lib", "route"}
\* The lengths an encoded buffer can have: below the target and outside the
\* balanced tolerance, inside the tolerance, exact, above and outside.
EncodedSizes == {targetBytes - 2, targetBytes - 1, targetBytes, targetBytes + 2}
\* heuristics.estimatedQuality: the upper end of qualityBounds.
EstimatedQualities == {95}
\* heuristics.maxIterations: ADAPTIVE_CONFIG.maxIterations.small.
MaxIterationsValues == {5}

\* --------------------------------------------------------------- helpers
Abs(x) == IF x < 0 THEN -x ELSE x
Max(a, b) == IF a > b THEN a ELSE b
Min(a, b) == IF a < b THEN a ELSE b

VARIABLES
  mode,          \* this.mode
  variant,       \* which copy of ParallelCompressor runs
  heuristics,    \* this.heuristics
  memoryUsage,   \* this.memoryUsage
  timedOut,      \* a read of Date.now() has found the deadline passed
  pc,            \* where compress() is suspended
  batch,         \* the Encoder calls in flight, one group per parallelQualityTest
  bs,            \* locals of parallelBinarySearch: low, high, iterations, currentBest
  cj,            \* locals of compress: totalIterations, parallelTests, binaryResult
  result,        \* what compress() returned
  trialDists,    \* history: |size - target| of every trial a batch yielded
  activeJobs,          \* let activeJobs
  totalJobsProcessed,  \* let totalJobsProcessed
  cacheHits,           \* let cacheHits
  compressionCache,    \* const compressionCache: Map<string, Buffer>
  cacheTimestamps,     \* const cacheTimestamps: Map<string, number>
  now,                 \* the last value Date.now() returned, in ticks
  req,                 \* each request: where its POST is suspended, what it carries
  response,            \* the response POST returned last
  cleanups,            \* history: the number of calls of cleanupCache
  cache,               \* CompressionCache: private cache = new Map<string, Buffer>()
  timestamps,          \* CompressionCache: private timestamps = new Map<string, number>()
  hitCount,            \* CompressionCache: private hitCount
  missCount,           \* CompressionCache: private missCount
  ret,                 \* CompressionCache: the method called last, its key, what it
                       \* returned (for set: the buffer stored) and the entries it dropped
  getCalls,            \* history: the calls of get since the cache was new or cleared
  keyArgs,             \* the arguments of each call of generateKey
  keys,                \* what each call of generateKey returned
  imageMetadata,       \* the ImageMetadata of each call of generateHeuristics
  generated            \* what each call of generateHeuristics returned

engineVars == <<mode, variant, heuristics, memoryUsage, timedOut, pc, batch, bs, cj,
                result, trialDists>>
serverVars == <<activeJobs, totalJobsProcessed, cacheHits, compressionCache,
                cacheTimestamps, now, req, response, cleanups>>
cacheVars == <<cache, timestamps, hitCount, missCount, ret, getCalls>>
pureVars == <<keyArgs, keys, imageMetadata, generated>>
vars == <<engineVars, serverVars, cacheVars, pureVars>>

\* ------------------------------------------------------------ data values
NoBuffer == [encQuality |-> 0, encScale |-> 0, bytes |-> 0]
NoTrial == [quality |-> 0, size |-> 0, buffer |-> NoBuffer]
NoResult == [buffer |-> NoBuffer, quality |-> 0, size |-> 0, exactMatch |-> FALSE,
             iterations |-> 0, mode |-> "none", scaleFactor |-> NoScale,
             parallelTests |-> 0, via |-> "none"]
NoSearch == [low |-> 0, high |-> 0, iterations |-> 0, currentBest |-> NoTrial]
NoJob == [totalIterations |-> 0, parallelTests |-> 0, binaryResult |-> NoTrial]

\* constructor
targetSize == targetBytes
tolerance == IF mode = "exact" THEN toleranceExact ELSE toleranceBalanced

\* A bug isWithinTolerance could have: the balanced tolerance in both modes.
isWithinToleranceBalanced(size) == Abs(size - targetSize) <= toleranceBalanced
isWithinTolerance(size) == Abs(size - targetSize) <= tolerance
\* A bug isExactMatch could have: the tolerance test in its place.
isExactMatchWithinTolerance(size) == Abs(size - targetSize) <= tolerance
isExactMatch(size) == size = targetSize
\* checkTimeout reads the clock. Time only moves forward: a read made after
\* one that found the deadline passed finds it passed too; any other read
\* finds either. These are the values the reads of one synchronous stretch
\* of code can see.
ClockReads == IF timedOut THEN {TRUE} ELSE {FALSE, TRUE}
\* A bug checkTimeout could have: a deadline that never passes.
checkTimeoutNever(expired) == FALSE
checkTimeout(expired) == expired

\* --------------------------------------------------------------- Encoder
\* ImageEncoder.encode: the quality it hands to sharp.
intQuality(quality) == Max(1, Min(100, quality))
\* The buffer an Encoder call returns: its content is determined by the
\* quality and scale the call was made with; its length is the codec's.
EncodedBuffer(quality, scaleFactor, n) ==
  [encQuality |-> intQuality(quality), encScale |-> scaleFactor, bytes |-> n]
BufferLength(buffer) == buffer.bytes

\* parallelQualityTest: this.encoder.encode(buffer, quality, format) is called
\* without a scale factor, so encode's default applies whatever the caller's
\* scale is.
EncodeScale(scaleFactor) == FullScale

\* A bug parallelQualityTest could have: a size that is not read off the buffer.
QualityTestResultEstimated(quality, buffer) ==
  [quality |-> quality, size |-> targetSize, buffer |-> buffer]
\* parallelQualityTest: the trial built from an Encoder result.
QualityTestResult(quality, buffer) ==
  [quality |-> quality, size |-> BufferLength(buffer), buffer |-> buffer]

\* The calls of one parallelQualityTest, all dispatched at once.
Dispatch(qualities, scaleFactor) ==
  [scaleFactor |-> scaleFactor,
   calls |-> [i \in 1..Len(qualities) |->
                [quality |-> qualities[i], st |-> "pending", trial |-> NoTrial]]]

\* results.filter(result => result !== null), in the order of the qualities.
RECURSIVE Kept(_, _)
Kept(calls, i) ==
  IF i > Len(calls) THEN << >>
  ELSE (IF calls[i].st = "ok" THEN <<calls[i].trial>> ELSE << >>) \o Kept(calls, i + 1)
Results(group) == Kept(group.calls, 1)

\* A bug the fan-in could have: Promise.race, resolved by the first call.
AnyDone == \E g \in 1..Len(batch) : \E i \in 1..Len(batch[g].calls) :
             batch[g].calls[i].st # "pending"
\* await Promise.all(promises)
AllDone == \A g \in 1..Len(batch) : \A i \in 1..Len(batch[g].calls) :
             batch[g].calls[i].st # "pending"

\* ---------------------------------------------------------- best of batch
Dist(size) == Abs(size - targetSize)
\* A bug the reduce callback could have: the accumulator always kept.
CloserNever(best, current) == best
\* The reduce callback: currentDiff < bestDiff ? current : best.
Closer(best, current) == IF Dist(current.size) < Dist(best.size) THEN current ELSE best
RECURSIVE ReduceFrom(_, _, _)
ReduceFrom(seq, i, best) ==
  IF i > Len(seq) THEN best ELSE ReduceFrom(seq, i + 1, Closer(best, seq[i]))
\* A bug the selection could have: the first trial taken for the best.
BestOfFirst(seq) == seq[1]
\* Array.prototype.reduce without an initial value.
BestOf(seq) == ReduceFrom(seq, 2, seq[1])

RECURSIVE MinQuality(_, _)
MinQuality(seq, i) ==
  IF i = Len(seq) THEN seq[i].quality ELSE Min(seq[i].quality, MinQuality(seq, i + 1))
RECURSIVE MaxQuality(_, _)
MaxQuality(seq, i) ==
  IF i = Len(seq) THEN seq[i].quality ELSE Max(seq[i].quality, MaxQuality(seq, i + 1))

\* A bug the filter could have: no upper bound.
InRangeFromOne(q) == q >= 1
\* .filter(q => q >= 1 && q <= 100)
InRange(q) == q >= 1 /\ q <= 100
\* A bug generateInitialQualities could have: a probe short of the four.
generateThreeInitialQualities ==
  SelectSeq(<<heuristics.estimatedQuality - 5, heuristics.estimatedQuality,
              heuristics.estimatedQuality + 5>>, InRange)
\* generateInitialQualities, and [mid - 1, mid, mid + 1] in the loop. The
\* estimate and the midpoint are integers (estimateStartingQuality returns
\* Math.round's value, mid is Math.floor's), on which .map(Math.round) has
\* no effect.
generateInitialQualities ==
  SelectSeq(<<heuristics.estimatedQuality - 10, heuristics.estimatedQuality - 5,
              heuristics.estimatedQuality, heuristics.estimatedQuality + 5>>, InRange)
\* A bug the loop could have: probes spaced like those of Phase 1.
MidQualitiesSpread(mid) == SelectSeq(<<mid - 10, mid, mid + 10>>, InRange)
MidQualities(mid) == SelectSeq(<<mid - 1, mid, mid + 1>>, InRange)

AllScaleFactors == IF mode = "exact" THEN <<9, 8, 7, 6, 5, 4, 3>> ELSE <<9, 8, 7, 6, 5>>
scaleFactors == SubSeq(AllScaleFactors, 1, Min(MaxScales, Len(AllScaleFactors)))
ScaleQualities == <<70, 80, 90>>

\* ---------------------------------------------------------- createResult
createResult(r, iterations, parallelTests, scaleFactor, via) ==
  [buffer |-> r.buffer, quality |-> r.quality, size |-> r.size,
   exactMatch |-> isExactMatch(r.size), iterations |-> iterations, mode |-> mode,
   scaleFactor |-> scaleFactor, parallelTests |-> parallelTests, via |-> via]

\* "Return best available result": createResult in lib, a literal with
\* exactMatch: false in the route copy.
bestAvailableResult(r, iterations, parallelTests) ==
  IF variant = "lib"
  THEN createResult(r, iterations, parallelTests, NoScale, "fallback")
  ELSE [buffer |-> r.buffer, quality |-> r.quality, size |-> r.size,
        exactMatch |-> FALSE, iterations |-> iterations, mode |-> mode,
        scaleFactor |-> NoScale, parallelTests |-> parallelTests, via |-> "fallback"]

\* ------------------------------------------------------- compress: exits
Return(r) ==
  /\ pc' = "returned"
  /\ result' = r
  /\ batch' = << >>
  /\ bs' = NoSearch
  /\ cj' = NoJob

\* compress rejects with new Error(error): no result, the message kept.
Throw(error) ==
  /\ pc' = "thrown"
  /\ result' = [NoResult EXCEPT !.via = error]
  /\ batch' = << >>
  /\ bs' = NoSearch
  /\ cj' = NoJob

\* A bug compress could have: an empty result where Phase 1 yielded nothing.
InitialTestingFailedSilently == Return(createResult(NoTrial, 0, 0, NoScale, "phase2"))
\* compress: initialResults.length === 0.
InitialTestingFailed == Throw("Initial quality testing failed")

\* A bug compress could have: no catch around progressiveScaling.
ScalingFailedUncaught(binaryResult, tot, pt) ==
  Throw("Progressive scaling failed to produce any result")
\* progressiveScaling throws for want of a valid result: compress catches,
\* logs, and returns the binary search result.
ScalingFailed(binaryResult, tot, pt) ==
  Return(bestAvailableResult(binaryResult, tot, pt))

\* progressiveScaling, up to its Promise.all: every scale's callback runs at
\* once; a callback that finds the deadline passed yields null. The clock is
\* monotone, so the callbacks that still dispatch are a prefix of the list.
StartScaling(binaryResult, tot, pt) ==
  \E k \in 0..Len(scaleFactors) :
    /\ timedOut' = (k < Len(scaleFactors))
    /\ IF k = 0
       THEN \* validResults is empty
            ScalingFailed(binaryResult, tot, pt)
       ELSE /\ pc' = "p3"
            /\ batch' = [g \in 1..k |-> Dispatch(ScaleQualities, scaleFactors[g])]
            /\ cj' = [totalIterations |-> tot, parallelTests |-> pt,
                      binaryResult |-> binaryResult]
            /\ bs' = NoSearch
            /\ result' = result

\* A bug compress could have: Phase 3 entered whatever Phase 2 returned.
AfterBinarySearchAlwaysScales(binaryResult, iterations, tot0, pt, expired) ==
  StartScaling(binaryResult, tot0 + iterations, pt)
\* compress, from the return of parallelBinarySearch on.
AfterBinarySearch(binaryResult, iterations, tot0, pt, expired) ==
  LET tot == tot0 + iterations IN
  IF isWithinTolerance(binaryResult.size)
  THEN /\ Return(createResult(binaryResult, tot, pt, NoScale, "phase2"))
       /\ timedOut' = timedOut
  ELSE IF ~checkTimeout(expired)
       THEN StartScaling(binaryResult, tot, pt)
       ELSE /\ Return(bestAvailableResult(binaryResult, tot, pt))
            /\ timedOut' = TRUE

\* A bug parallelBinarySearch could have: a loop guard without the budget.
SearchLoopUnbudgeted(low, high, iterations, currentBest, tot0, pt, expired) ==
  IF low <= high /\ ~checkTimeout(expired)
  THEN LET mid == (low + high) \div 2 IN
       /\ pc' = "p2"
       /\ batch' = <<Dispatch(MidQualities(mid), FullScale)>>
       /\ bs' = [low |-> low, high |-> high, iterations |-> iterations,
                 currentBest |-> currentBest]
       /\ cj' = [totalIterations |-> tot0, parallelTests |-> pt, binaryResult |-> NoTrial]
       /\ result' = result
       /\ timedOut' = expired
  ELSE AfterBinarySearch(currentBest, iterations, tot0, pt, expired)
\* parallelBinarySearch: the while loop's guard and the head of its body.
SearchLoop(low, high, iterations, currentBest, tot0, pt, expired) ==
  IF low <= high /\ iterations < heuristics.maxIterations /\ ~checkTimeout(expired)
  THEN LET mid == (low + high) \div 2 IN
       /\ pc' = "p2"
       /\ batch' = <<Dispatch(MidQualities(mid), FullScale)>>
       /\ bs' = [low |-> low, high |-> high, iterations |-> iterations,
                 currentBest |-> currentBest]
       /\ cj' = [totalIterations |-> tot0, parallelTests |-> pt, binaryResult |-> NoTrial]
       /\ result' = result
       /\ timedOut' = expired
  ELSE AfterBinarySearch(currentBest, iterations, tot0, pt, expired)

\* ------------------------------------------------------------- actions
\* compress() up to the first batch: extractMetadata, then Phase 1's calls.
Start ==
  /\ pc = "start"
  /\ \/ /\ pc' = "p1"
        /\ batch' = <<Dispatch(generateInitialQualities, FullScale)>>
        /\ UNCHANGED <<result, bs, cj>>
     \/ \* extractMetadata throws
        Throw("Invalid image dimensions")
  /\ UNCHANGED <<mode, variant, heuristics, memoryUsage, timedOut, trialDists>>
  /\ UNCHANGED <<serverVars, cacheVars, pureVars>>

\* trackMemory: this.memoryUsage += buffer.length. The sum is kept exactly up
\* to the first value above the ceiling: the code only ever compares it with
\* the ceiling, and it never decreases.
trackMemory(buffer) == Min(memoryUsage + BufferLength(buffer), memoryLimitPerJob + 1)
\* trackMemory: the condition of its throw.
MemoryExceeded(usage) == usage > memoryLimitPerJob

\* One Encoder call of a batch settles: encode fails, or returns a buffer
\* that trackMemory accounts for; a throw of either is caught in the map
\* callback, which then yields null.
EncodeSettles(g, i) ==
  /\ pc \in {"p1", "p2", "p3"}
  /\ batch[g].calls[i].st = "pending"
  /\ LET call == batch[g].calls[i] IN
     \/ /\ batch' = [batch EXCEPT ![g].calls[i].st = "failed"]
        /\ UNCHANGED <<memoryUsage, trialDists>>
     \/ \E n \in EncodedSizes :
          LET buffer == EncodedBuffer(call.quality, EncodeScale(batch[g].scaleFactor), n)
              trial == QualityTestResult(call.quality, buffer)
          IN /\ memoryUsage' = trackMemory(buffer)
             /\ IF MemoryExceeded(memoryUsage')
                THEN /\ batch' = [batch EXCEPT ![g].calls[i].st = "dropped"]
                     /\ trialDists' = trialDists
                ELSE /\ batch' = [batch EXCEPT ![g].calls[i] =
                                    [quality |-> call.quality, st |-> "ok", trial |-> trial]]
                     /\ trialDists' = trialDists \cup {Dist(trial.size)}
  /\ UNCHANGED <<mode, variant, heuristics, timedOut, pc, bs, cj, result>>
  /\ UNCHANGED <<serverVars, cacheVars, pureVars>>

\* Promise.all of Phase 1 resolves: compress lines 58-62, then
\* parallelBinarySearch up to its first await.
Phase1Decide ==
  /\ pc = "p1"
  /\ AllDone
  /\ LET initialResults == Results(batch[1])
         n == Len(initialResults)
     IN IF n = 0
        THEN InitialTestingFailed /\ timedOut' = timedOut
        ELSE LET bestResult == BestOf(initialResults) IN
             IF isWithinTolerance(bestResult.size)
             THEN AfterBinarySearch(bestResult, n, n, n, timedOut)
             ELSE \E expired \in ClockReads :
                    IF bestResult.size > targetSize
                    THEN SearchLoop(Max(1, bestResult.quality - 20), bestResult.quality,
                                    n, bestResult, n, n, expired)
                    ELSE SearchLoop(bestResult.quality, Min(100, bestResult.quality + 20),
                                    n, bestResult, n, n, expired)
  /\ UNCHANGED <<mode, variant, heuristics, memoryUsage, trialDists>>
  /\ UNCHANGED <<serverVars, cacheVars, pureVars>>

\* A bug the loop could have: continue, not break, on a batch without trials.
Phase2DecideContinue ==
  /\ pc = "p2"
  /\ AllDone
  /\ LET results == Results(batch[1])
         tot0 == cj.totalIterations
         pt == cj.parallelTests
     IN IF Len(results) = 0
        THEN \E expired \in ClockReads :
               SearchLoop(bs.low, bs.high, bs.iterations, bs.currentBest, tot0, pt, expired)
        ELSE LET batchBest == BestOf(results)
                 currentBest == IF Dist(batchBest.size) < Dist(bs.currentBest.size)
                                THEN batchBest ELSE bs.currentBest
                 iterations == bs.iterations + Len(results)
             IN IF isWithinTolerance(batchBest.size)
                THEN AfterBinarySearch(batchBest, iterations, tot0, pt, timedOut)
                ELSE \E expired \in ClockReads :
                       IF batchBest.size > targetSize
                       THEN SearchLoop(bs.low, MinQuality(results, 1) - 1, iterations,
                                       currentBest, tot0, pt, expired)
                       ELSE SearchLoop(MaxQuality(results, 1) + 1, bs.high, iterations,
                                       currentBest, tot0, pt, expired)
  /\ UNCHANGED <<mode, variant, heuristics, memoryUsage, trialDists>>
  /\ UNCHANGED <<serverVars, cacheVars, pureVars>>

\* Promise.all of a Phase 2 batch resolves: the rest of the loop body.
Phase2Decide ==
  /\ pc = "p2"
  /\ AllDone
  /\ LET results == Results(batch[1])
         tot0 == cj.totalIterations
         pt == cj.parallelTests
     IN IF Len(results) = 0
        THEN \E expired \in ClockReads :
               AfterBinarySearch(bs.currentBest, bs.iterations, tot0, pt, expired)
        ELSE LET batchBest == BestOf(results)
                 currentBest == IF Dist(batchBest.size) < Dist(bs.currentBest.size)
                                THEN batchBest ELSE bs.currentBest
                 iterations == bs.iterations + Len(results)
             IN IF isWithinTolerance(batchBest.size)
                THEN AfterBinarySearch(batchBest, iterations, tot0, pt, timedOut)
                ELSE \E expired \in ClockReads :
                       IF batchBest.size > targetSize
                       THEN SearchLoop(bs.low, MinQuality(results, 1) - 1, iterations,
                                       currentBest, tot0, pt, expired)
                       ELSE SearchLoop(MaxQuality(results, 1) + 1, bs.high, iterations,
                                       currentBest, tot0, pt, expired)
  /\ UNCHANGED <<mode, variant, heuristics, memoryUsage, trialDists>>
  /\ UNCHANGED <<serverVars, cacheVars, pureVars>>

\* progressiveScaling: what one scale's callback yields.
ScaleResult(group) ==
  LET results == Results(group)
      best == BestOf(results)
  IN [buffer |-> best.buffer, quality |-> best.quality, size |-> best.size,
      scaleFactor |-> group.scaleFactor, iterations |-> Len(results)]

RECURSIVE ValidResults(_, _)
ValidResults(groups, g) ==
  IF g > Len(groups) THEN << >>
  ELSE (IF Len(Results(groups[g])) = 0 THEN << >> ELSE <<ScaleResult(groups[g])>>)
       \o ValidResults(groups, g + 1)

RECURSIVE SumIterations(_, _)
SumIterations(seq, i) ==
  IF i > Len(seq) THEN 0 ELSE seq[i].iterations + SumIterations(seq, i + 1)

\* Promise.all of the scale callbacks resolves: the rest of
\* progressiveScaling, then compress lines 78-93.
Phase3Decide ==
  /\ pc = "p3"
  /\ AllDone
  /\ LET validResults == ValidResults(batch, 1) IN
     IF Len(validResults) = 0
     THEN ScalingFailed(cj.binaryResult, cj.totalIterations, cj.parallelTests)
     ELSE LET bestScaleResult == BestOf(validResults)
              tot == cj.totalIterations + SumIterations(validResults, 1)
          IN IF isWithinTolerance(bestScaleResult.size)
             THEN Return(createResult(bestScaleResult, tot, cj.parallelTests,
                                      bestScaleResult.scaleFactor, "phase3"))
             ELSE Return(bestAvailableResult(cj.binaryResult, tot, cj.parallelTests))
  /\ UNCHANGED <<mode, variant, heuristics, memoryUsage, timedOut, trialDists>>
  /\ UNCHANGED <<serverVars, cacheVars, pureVars>>

\* ------------------------------------------------------------ POST handler
Requests == 1..NumRequests
Keys == 1..NumKeys
\* The buffers compress() can return for one input: which of them a call
\* returns depends on what its reads of the clock find (the loop guard of
\* parallelBinarySearch, the deadline test before Phase 3).
Outputs == 1..NumOutputs
\* What the form of a request lacks: nothing, the image, a supported output
\* format, an allowed file type, a size within MAX_FILE_SIZE.
Defects == {"none", "noFile", "badFormat", "badType", "tooLarge"}

\* released counts the runs of the finally block of the request.
NoRequest == [at |-> "new", defect |-> "none", key |-> 0, released |-> 0]
NoResponse == [status |-> 0, cacheHit |-> FALSE, body |-> 0]

\* A bug generateCacheKey could have: a key that leaves the request's triple out.
generateCacheKeyConstant(r) == 0
\* generateCacheKey: md5 of the bytes with format and mode; a request carries
\* its triple as one of Keys.
generateCacheKey(r) == req[r].key

\* The values a read of Date.now() can return: the clock never runs backwards.
DateNow == now..MaxClock

\* A bug isCacheValid could have: the comparison turned round.
isCacheValidInverted(timestamp, t) == t - timestamp > CACHE_TTL
isCacheValid(timestamp, t) == t - timestamp < CACHE_TTL

MapSet(m, k, v) == [x \in DOMAIN m \cup {k} |-> IF x = k THEN v ELSE m[x]]
MapDelete(m, ks) == [x \in DOMAIN m \ ks |-> m[x]]

\* cleanupCache: the keys it deletes from both maps.
Expired(stamps, t) == {k \in DOMAIN stamps : t - stamps[k] > CACHE_TTL}

\* POST: the admission test.
BusyOffByOne == activeJobs > MAX_CONCURRENT_JOBS
Busy == activeJobs >= MAX_CONCURRENT_JOBS

\* A bug POST could have: the decrement at the end of the try block, which a
\* throw skips, instead of in finally.
RespondLeaking(r, status, cacheHit, body) ==
  /\ response' = [status |-> status, cacheHit |-> cacheHit, body |-> body]
  /\ req' = [req EXCEPT ![r] = [at |-> "done", defect |-> "none", key |-> 0,
                                released |-> req[r].released +
                                             (IF status = 500 THEN 0 ELSE 1)]]
  /\ activeJobs' = activeJobs - (IF status = 500 THEN 0 ELSE 1)
\* The response of request r, and the finally block: activeJobs--.
Respond(r, status, cacheHit, body) ==
  /\ response' = [status |-> status, cacheHit |-> cacheHit, body |-> body]
  /\ req' = [req EXCEPT ![r] = [at |-> "done", defect |-> "none", key |-> 0,
                                released |-> req[r].released + 1]]
  /\ activeJobs' = activeJobs - 1

\* POST up to its first await: the admission test, then the two counters.
\* Requests are numbered in their order of arrival.
Arrive(r) ==
  /\ req[r].at = "new"
  /\ \A q \in Requests : q < r => req[q].at # "new"
  /\ IF Busy
     THEN /\ req' = [req EXCEPT ![r].at = "rejected"]
          /\ response' = [status |-> 503, cacheHit |-> FALSE, body |-> 0]
          /\ UNCHANGED <<activeJobs, totalJobsProcessed>>
     ELSE /\ activeJobs' = activeJobs + 1
          /\ totalJobsProcessed' = totalJobsProcessed + 1
          /\ response' = response
          /\ \/ \E d \in Defects \ {"none"} :
                  req' = [req EXCEPT ![r].at = "formData", ![r].defect = d]
             \/ \E k \in Keys :
                  req' = [req EXCEPT ![r].at = "formData", ![r].key = k]
  /\ UNCHANGED <<cacheHits, compressionCache, cacheTimestamps, now, cleanups>>
  /\ UNCHANGED <<engineVars, cacheVars, pureVars>>

\* request.formData() settles: the four validation returns, or on to
\* file.arrayBuffer().
FormDataSettles(r) ==
  /\ req[r].at = "formData"
  /\ \/ Respond(r, 500, FALSE, 0)
     \/ IF req[r].defect # "none"
        THEN Respond(r, 400, FALSE, 0)
        ELSE /\ req' = [req EXCEPT ![r].at = "arrayBuffer"]
             /\ UNCHANGED <<activeJobs, response>>
  /\ UNCHANGED <<totalJobsProcessed, cacheHits, compressionCache, cacheTimestamps, now,
                 cleanups>>
  /\ UNCHANGED <<engineVars, cacheVars, pureVars>>

\* file.arrayBuffer() settles: the cache check, then sharp's metadata call.
\* isCacheValid reads the clock only when the key is in the cache.
ArrayBufferSettles(r) ==
  /\ req[r].at = "arrayBuffer"
  /\ LET cacheKey == generateCacheKey(r) IN
     IF cacheKey \in DOMAIN compressionCache
     THEN \E t \in DateNow :
            /\ now' = t
            /\ IF isCacheValid(cacheTimestamps[cacheKey], t)
               THEN /\ cacheHits' = cacheHits + 1
                    /\ Respond(r, 200, TRUE, compressionCache[cacheKey])
               ELSE /\ req' = [req EXCEPT ![r].at = "metadata"]
                    /\ UNCHANGED <<cacheHits, activeJobs, response>>
     ELSE /\ req' = [req EXCEPT ![r].at = "metadata"]
          /\ UNCHANGED <<cacheHits, activeJobs, response, now>>
  /\ UNCHANGED <<totalJobsProcessed, compressionCache, cacheTimestamps, cleanups>>
  /\ UNCHANGED <<engineVars, cacheVars, pureVars>>

\* sharp(inputBuffer).metadata() settles: heuristics, the compressor, and the
\* call of compress; or it throws.
MetadataSettles(r) ==
  /\ req[r].at = "metadata"
  /\ \/ Respond(r, 500, FALSE, 0)
     \/ /\ req' = [req EXCEPT ![r].at = "compress"]
        /\ UNCHANGED <<activeJobs, response>>
  /\ UNCHANGED <<totalJobsProcessed, cacheHits, compressionCache, cacheTimestamps, now,
                 cleanups>>
  /\ UNCHANGED <<engineVars, cacheVars, pureVars>>

\* compressor.compress() settles: the cache write, the periodic sweep and
\* the response; or it throws. The write and the sweep each read the clock.
CompressSettles(r) ==
  /\ req[r].at = "compress"
  /\ \/ /\ Respond(r, 500, FALSE, 0)
        /\ UNCHANGED <<compressionCache, cacheTimestamps, now, cleanups>>
     \/ \E b \in Outputs, t \in DateNow :
          LET cacheKey == generateCacheKey(r)
              written == MapSet(compressionCache, cacheKey, b)
              stamped == MapSet(cacheTimestamps, cacheKey, t)
          IN IF totalJobsProcessed % CleanupEvery = 0
             THEN \E u \in t..MaxClock :
                    /\ compressionCache' = MapDelete(written, Expired(stamped, u))
                    /\ cacheTimestamps' = MapDelete(stamped, Expired(stamped, u))
                    /\ now' = u
                    /\ cleanups' = cleanups + 1
                    /\ Respond(r, 200, FALSE, b)
             ELSE /\ compressionCache' = written
                  /\ cleanups' = cleanups
                  /\ cacheTimestamps' = stamped
                  /\ now' = t
                  /\ Respond(r, 200, FALSE, b)
  /\ UNCHANGED <<totalJobsProcessed, cacheHits>>
  /\ UNCHANGED <<engineVars, cacheVars, pureVars>>

EngineIdle ==
  /\ mode = "balanced"
  /\ variant = "route"
  /\ heuristics = [estimatedQuality |-> 95, maxIterations |-> 5]
  /\ memoryUsage = 0
  /\ timedOut = FALSE
  /\ pc = "idle"
  /\ batch = << >>
  /\ bs = NoSearch
  /\ cj = NoJob
  /\ result = NoResult
  /\ trialDists = {}

ServerIdle ==
  /\ activeJobs = 0
  /\ totalJobsProcessed = 0
  /\ cacheHits = 0
  /\ compressionCache = << >>
  /\ cacheTimestamps = << >>
  /\ now = 1
  /\ req = [r \in Requests |-> NoRequest]
  /\ response = NoResponse
  /\ cleanups = 0

\* deleted counts the entries the call removed.
NoCall == [op |-> "none", key |-> 0, value |-> null, deleted |-> 0]
\* export const compressionCache = new CompressionCache()
CacheIdle ==
  /\ cache = << >>
  /\ timestamps = << >>
  /\ hitCount = 0
  /\ missCount = 0
  /\ getCalls = 0
  /\ ret = NoCall

\* No call of generateKey or of generateHeuristics is under examination.
PureIdle ==
  /\ keyArgs = << >>
  /\ keys = << >>
  /\ imageMetadata = << >>
  /\ generated = << >>

ServerInit == EngineIdle /\ ServerIdle /\ CacheIdle /\ PureIdle

ServerNext ==
  \/ \E r \in Requests : Arrive(r)
  \/ \E r \in Requests : FormDataSettles(r)
  \/ \E r \in Requests : ArrayBufferSettles(r)
  \/ \E r \in Requests : MetadataSettles(r)
  \/ \E r \in Requests : CompressSettles(r)

\* The server: concurrent POST requests over the shared counters and cache.
SpecServer == ServerInit /\ [][ServerNext]_vars

\* ------------------------------------------------------ CompressionCache
CacheKeys == 1..NumCacheKeys

\* A bug isValid could have: an entry exactly ttl old still served.
isValidInclusive(timestamp, t) == t - timestamp <= CACHE_CONFIG_ttl
\* isValid, with t the value its Date.now() returns.
isValid(timestamp, t) == t - timestamp < CACHE_CONFIG_ttl

\* A bug cleanup could have: entries exactly ttl old swept too.
keysToDeleteInclusive(t) ==
  {k \in DOMAIN timestamps : t - timestamps[k] >= CACHE_CONFIG_ttl}
\* cleanup: the keys its loop collects, with t the value of now.
keysToDelete(t) == {k \in DOMAIN timestamps : t - timestamps[k] > CACHE_CONFIG_ttl}

\* The other variables a CompressionCache method leaves alone.
CacheFrame ==
  /\ UNCHANGED <<activeJobs, totalJobsProcessed, cacheHits, compressionCache,
                 cacheTimestamps, req, response, cleanups>>
  /\ UNCHANGED <<engineVars, pureVars>>

\* What Date.now() can return to a method of the cache: the clock does not run
\* backwards.
CacheDateNow == now..CacheMaxClock

\* A bug set could have: the buffer is stored and its timestamp is not.
setBufferOnly(key, buffer) ==
  /\ cache' = MapSet(cache, key, buffer)
  /\ ret' = [op |-> "set", key |-> key, value |-> buffer,
             deleted |-> Cardinality(DOMAIN cache \cap {key})]
  /\ UNCHANGED <<timestamps, hitCount, missCount, now, getCalls>>
  /\ CacheFrame

\* set overwrites; ret.deleted is 1 when the key had an entry, which is replaced.
set(key, buffer) ==
  /\ \E t \in CacheDateNow :
       /\ now' = t
       /\ cache' = MapSet(cache, key, buffer)
       /\ timestamps' = MapSet(timestamps, key, t)
  /\ ret' = [op |-> "set", key |-> key, value |-> buffer,
             deleted |-> Cardinality(DOMAIN cache \cap {key})]
  /\ UNCHANGED <<hitCount, missCount, getCalls>>
  /\ CacheFrame

delete(key) ==
  /\ cache' = MapDelete(cache, {key})
  /\ timestamps' = MapDelete(timestamps, {key})
  /\ ret' = [op |-> "delete", key |-> key, value |-> null,
             deleted |-> Cardinality(DOMAIN cache \cap {key})]
  /\ UNCHANGED <<hitCount, missCount, now, getCalls>>
  /\ CacheFrame

\* A bug get could have: a hit restarts the lifetime of the entry.
getRefreshing(key) ==
  /\ hitCount + missCount < MaxGets
  /\ getCalls' = getCalls + 1
  /\ IF key \notin DOMAIN cache
     THEN /\ missCount' = missCount + 1
          /\ ret' = [op |-> "get", key |-> key, value |-> null, deleted |-> 0]
          /\ UNCHANGED <<cache, timestamps, hitCount, now>>
     ELSE LET timestamp == IF key \in DOMAIN timestamps THEN timestamps[key] ELSE 0 IN
          \E t \in (IF timestamp = 0 THEN {now} ELSE CacheDateNow) :
            /\ now' = t
            /\ IF timestamp = 0 \/ ~isValid(timestamp, t)
               THEN /\ cache' = MapDelete(cache, {key})
                    /\ timestamps' = MapDelete(timestamps, {key})
                    /\ missCount' = missCount + 1
                    /\ hitCount' = hitCount
                    /\ ret' = [op |-> "get", key |-> key, value |-> null, deleted |-> 1]
               ELSE /\ hitCount' = hitCount + 1
                    /\ ret' = [op |-> "get", key |-> key, value |-> cache[key],
                               deleted |-> 0]
                    /\ timestamps' = MapSet(timestamps, key, t)
                    /\ UNCHANGED <<cache, missCount>>
  /\ CacheFrame

\* get: a miss for an absent key; for a present one the timestamp is tested
\* (a missing or zero timestamp is falsy and isValid is not called), and the
\* entry is deleted and counted as a miss, or counted as a hit and returned.
get(key) ==
  /\ hitCount + missCount < MaxGets
  /\ getCalls' = getCalls + 1
  /\ IF key \notin DOMAIN cache
     THEN /\ missCount' = missCount + 1
          /\ ret' = [op |-> "get", key |-> key, value |-> null, deleted |-> 0]
          /\ UNCHANGED <<cache, timestamps, hitCount, now>>
     ELSE LET timestamp == IF key \in DOMAIN timestamps THEN timestamps[key] ELSE 0 IN
          \E t \in (IF timestamp = 0 THEN {now} ELSE CacheDateNow) :
            /\ now' = t
            /\ IF timestamp = 0 \/ ~isValid(timestamp, t)
               THEN /\ cache' = MapDelete(cache, {key})
                    /\ timestamps' = MapDelete(timestamps, {key})
                    /\ missCount' = missCount + 1
                    /\ hitCount' = hitCount
                    /\ ret' = [op |-> "get", key |-> key, value |-> null, deleted |-> 1]
               ELSE /\ hitCount' = hitCount + 1
                    /\ ret' = [op |-> "get", key |-> key, value |-> cache[key],
                               deleted |-> 0]
                    /\ UNCHANGED <<cache, timestamps, missCount>>
  /\ CacheFrame

\* cleanup; ret.deleted is keysToDelete.length, which it logs.
cleanup ==
  /\ \E t \in CacheDateNow :
       /\ now' = t
       /\ cache' = MapDelete(cache, keysToDelete(t))
       /\ timestamps' = MapDelete(timestamps, keysToDelete(t))
       /\ ret' = [op |-> "cleanup", key |-> 0, value |-> null,
                  deleted |-> Cardinality(keysToDelete(t))]
  /\ UNCHANGED <<hitCount, missCount, getCalls>>
  /\ CacheFrame

\* A bug clear could have: the entries are dropped and the counters kept.
clearEntriesOnly ==
  /\ cache' = << >>
  /\ timestamps' = << >>
  /\ getCalls' = 0
  /\ ret' = [op |-> "clear", key |-> 0, value |-> null,
             deleted |-> Cardinality(DOMAIN cache)]
  /\ UNCHANGED <<hitCount, missCount, now>>
  /\ CacheFrame

clear ==
  /\ cache' = << >>
  /\ timestamps' = << >>
  /\ hitCount' = 0
  /\ missCount' = 0
  /\ getCalls' = 0
  /\ ret' = [op |-> "clear", key |-> 0, value |-> null,
             deleted |-> Cardinality(DOMAIN cache)]
  /\ now' = now
  /\ CacheFrame

CacheInit == EngineIdle /\ ServerIdle /\ CacheIdle /\ PureIdle

CacheNext ==
  \/ \E key \in CacheKeys, buffer \in Outputs : set(key, buffer)
  \/ \E key \in CacheKeys : get(key)
  \/ \E key \in CacheKeys : delete(key)
  \/ cleanup
  \/ clear

\* One CompressionCache under any sequence of calls of its methods.
SpecCache == CacheInit /\ [][CacheNext]_vars

\* ------------------------------------------------------------- the engine
Init ==
  /\ mode \in Modes
  /\ variant \in Variants
  /\ heuristics \in [estimatedQuality : EstimatedQualities, maxIterations : MaxIterationsValues]
  /\ memoryUsage = 0
  /\ timedOut = FALSE
  /\ pc = "start"
  /\ batch = << >>
  /\ bs = NoSearch
  /\ cj = NoJob
  /\ result = NoResult
  /\ trialDists = {}
  /\ ServerIdle
  /\ CacheIdle
  /\ PureIdle

Next ==
  \/ Start
  \/ \E g \in 1..Len(batch) : \E i \in 1..Len(batch[g].calls) : EncodeSettles(g, i)
  \/ Phase1Decide
  \/ Phase2Decide
  \/ Phase3Decide

Spec == Init /\ [][Next]_vars

\* The engine when every Encoder call settles and every continuation that
\* can run does run.
SpecFair == Spec /\ WF_vars(Next)

\* ------------------------------------------------------------ generateKey
\* SUPPORTED_OUTPUT_FORMATS
Formats == {"webp", "avif"}
\* The input buffers: every byte string of up to MaxBytes bytes.
Buffers == UNION {[1..n -> 0..MaxByte] : n \in 0..MaxBytes}

\* createHash('md5').update(buffer): every byte of the buffer is folded into
\* a digest of fixed width, so that byte strings outnumber digests.
RECURSIVE Update(_, _, _)
Update(buffer, i, digest) ==
  IF i > Len(buffer) THEN digest
  ELSE Update(buffer, i + 1, (digest * 2 + buffer[i] + 1) % NumDigests)
HexDigits == <<"0", "1", "2", "3", "4", "5", "6", "7", "8", "9",
               "a", "b", "c", "d", "e", "f">>
\* .digest('hex'): the digest in lower-case hexadecimal, two digits a byte.
DigestHex(digest) ==
  HexDigits[((digest \div 16) % 16) + 1] \o HexDigits[(digest % 16) + 1]

\* A bug generateKey could have: the mode left out of the key.
generateKeyWithoutMode(buffer, format, compressionMode) ==
  DigestHex(Update(buffer, 1, 0)) \o "-" \o format
\* generateKey: `${hash}-${format}-${mode}`.
generateKey(buffer, format, compressionMode) ==
  LET hash == DigestHex(Update(buffer, 1, 0))
  IN hash \o "-" \o format \o "-" \o compressionMode

\* The calls of generateKey under examination.
KeyCalls == 1..2
\* No key: the call has not been made.
NoKey == ""

\* One call of generateKey returns.
GenerateKey(c) ==
  /\ keys[c] = NoKey
  /\ keys' = [keys EXCEPT ![c] = generateKey(keyArgs[c].buffer, keyArgs[c].format,
                                              keyArgs[c].mode)]
  /\ UNCHANGED <<keyArgs, imageMetadata, generated>>
  /\ UNCHANGED <<engineVars, serverVars, cacheVars>>

KeyInit ==
  /\ EngineIdle
  /\ ServerIdle
  /\ CacheIdle
  /\ keyArgs \in [KeyCalls -> [buffer : Buffers, format : Formats, mode : Modes]]
  /\ keys = [c \in KeyCalls |-> NoKey]
  /\ imageMetadata = << >>
  /\ generated = << >>

KeyNext == \E c \in KeyCalls : GenerateKey(c)

\* generateKey called on any two triples of bytes, format and mode.
SpecKey == KeyInit /\ [][KeyNext]_vars

\* -------------------------------------------------- AdaptiveHeuristicsEngine
\* The numbers of the heuristics are fractions, kept exact: a numerator over
\* a positive denominator, in lowest terms.
RECURSIVE GCD(_, _)
GCD(a, b) == IF b = 0 THEN a ELSE GCD(b, a % b)
Fraction(n, d) == LET g == GCD(Abs(n), d) IN [num |-> n \div g, den |-> d \div g]
Whole(n) == [num |-> n, den |-> 1]
Plus(a, b) == Fraction(a.num * b.den + b.num * a.den, a.den * b.den)
Minus(a, b) == Fraction(a.num * b.den - b.num * a.den, a.den * b.den)
Times(a, b) == Fraction(a.num * b.num, a.den * b.den)
AtMost(a, b) == a.num * b.den <= b.num * a.den
MathMin(a, b) == IF AtMost(a, b) THEN a ELSE b
MathMax(a, b) == IF AtMost(a, b) THEN b ELSE a
\* Math.round: the nearest integer, a half rounded up.
MathRound(a) == (2 * a.num + a.den) \div (2 * a.den)
\* Math.floor
MathFloor(a) == a.num \div a.den
\* Math.log10, on the powers of ten, where it is an integer.
RECURSIVE MathLog10(_)
MathLog10(n) == IF n < 10 THEN 0 ELSE 1 + MathLog10(n \div 10)

\* The images a call is examined on. Widths, heights and sizes are powers of
\* ten, so that the logarithms are exact; the sizes stay below MAX_FILE_SIZE.
Widths == {10, 1000, 10000}
Heights == {1000}
Sizes == {1000, 100000, 10000000}
ImageMetadata ==
  [width : Widths, height : Heights, size : Sizes, channels : 1..4, hasAlpha : BOOLEAN]

\* ADAPTIVE_CONFIG
qualityBounds == [min |-> 60, max |-> 95]
maxIterationsConfig == [small |-> 5, medium |-> 8, large |-> 12]
MiB == 1024 * 1024
smallImageThreshold == 1 * MiB
mediumImageThreshold == 5 * MiB
parallelTestsConfig == 4

calculateComplexity(metadata) ==
  LET pixelCount == metadata.width * metadata.height
      dimensionComplexity == MathMin(Whole(1), Fraction(MathLog10(pixelCount), 7))
      channelComplexity ==
        Fraction(metadata.channels + (IF metadata.hasAlpha THEN 1 ELSE 0), 4)
      sizeComplexity == MathMin(Whole(1), Fraction(MathLog10(metadata.size), 8))
  IN Plus(Plus(Times(dimensionComplexity, Fraction(4, 10)),
               Times(channelComplexity, Fraction(3, 10))),
          Times(sizeComplexity, Fraction(3, 10)))

sizeRatio(metadata) == Fraction(metadata.size, metadata.width * metadata.height)

\* A bug estimateStartingQuality could have: the estimate not clamped.
estimateStartingQualityUnclamped(metadata) ==
  LET complexity == calculateComplexity(metadata)
      baseQuality == Whole(85)
      complexityPenalty == Times(complexity, Whole(20))
      sizePenalty == MathMin(Whole(10), Times(sizeRatio(metadata), Whole(1000)))
  IN MathRound(Minus(Minus(baseQuality, complexityPenalty), sizePenalty))
estimateStartingQuality(metadata) ==
  LET complexity == calculateComplexity(metadata)
      baseQuality == Whole(85)
      complexityPenalty == Times(complexity, Whole(20))
      sizePenalty == MathMin(Whole(10), Times(sizeRatio(metadata), Whole(1000)))
      estimatedQuality ==
        MathMax(Whole(qualityBounds.min),
                MathMin(Whole(qualityBounds.max),
                        Minus(Minus(baseQuality, complexityPenalty), sizePenalty)))
  IN MathRound(estimatedQuality)

calculateMaxIterations(metadata) ==
  LET complexity == calculateComplexity(metadata)
      maxIterations == IF metadata.size < smallImageThreshold
                       THEN maxIterationsConfig.small
                       ELSE IF metadata.size < mediumImageThreshold
                            THEN maxIterationsConfig.medium
                            ELSE maxIterationsConfig.large
      complexityMultiplier == Plus(Fraction(8, 10), Times(complexity, Fraction(4, 10)))
  IN MathRound(Times(Whole(maxIterations), complexityMultiplier))

generateHeuristics(metadata) ==
  [imageComplexity |-> calculateComplexity(metadata),
   estimatedQuality |-> estimateStartingQuality(metadata),
   maxIterations |-> calculateMaxIterations(metadata),
   timeoutStrategy |-> IF metadata.size > mediumImageThreshold
                       THEN "conservative" ELSE "aggressive",
   parallelTests |-> Min(parallelTestsConfig,
                         Max(2, MathFloor(Fraction(metadata.size, MiB))))]

\* The calls of generateHeuristics under examination.
HeuristicsCalls == 1..2
NoHeuristics == [imageComplexity |-> Whole(0), estimatedQuality |-> 0, maxIterations |-> 0,
                 timeoutStrategy |-> "none", parallelTests |-> 0]

\* One call of generateHeuristics returns.
GenerateHeuristics(c) ==
  /\ generated[c] = NoHeuristics
  /\ generated' = [generated EXCEPT ![c] = generateHeuristics(imageMetadata[c])]
  /\ UNCHANGED <<keyArgs, keys, imageMetadata>>
  /\ UNCHANGED <<engineVars, serverVars, cacheVars>>

HeuristicsInit ==
  /\ EngineIdle
  /\ ServerIdle
  /\ CacheIdle
  /\ keyArgs = << >>
  /\ keys = << >>
  /\ imageMetadata \in [HeuristicsCalls -> ImageMetadata]
  /\ generated = [c \in HeuristicsCalls |-> NoHeuristics]

HeuristicsNext == \E c \in HeuristicsCalls : GenerateHeuristics(c)

\* generateHeuristics called on any two images.
SpecHeuristics == HeuristicsInit /\ [][HeuristicsNext]_vars

\* ----------------------------------------------------------------- claims
InFlight(r) == req[r].at \in {"formData", "arrayBuffer", "metadata", "compress"}

\* C1: under any interleaving of POST requests activeJobs stays within
\* 0..MAX_CONCURRENT_JOBS, and a request that arrives while activeJobs equals
\* MAX_CONCURRENT_JOBS is answered 503 at once with activeJobs unchanged.
C1_AdmissionBound ==
  /\ [](0 <= activeJobs /\ activeJobs <= MAX_CONCURRENT_JOBS)
  /\ [][\A r \in Requests :
          (req[r].at = "new" /\ req'[r].at # "new" /\ activeJobs = MAX_CONCURRENT_JOBS)
          => /\ req'[r].at = "rejected"
             /\ response' = [status |-> 503, cacheHit |-> FALSE, body |-> 0]
             /\ activeJobs' = activeJobs]_vars
\* A request was answered 503 and every slot is still taken.
C1_Witness ==
  /\ response.status = 503
  /\ \E r \in Requests : req[r].at = "rejected"
  /\ activeJobs = MAX_CONCURRENT_JOBS

\* C2: an admitted request decrements activeJobs exactly once when it ends,
\* whichever way it ends, and a rejected request never does; activeJobs is
\* the number of requests in flight, so it is 0 when none is.
C2_SlotReleasedOnce ==
  /\ \A r \in Requests :
       /\ req[r].at = "done" => req[r].released = 1
       /\ req[r].at # "done" => req[r].released = 0
  /\ activeJobs = Cardinality({r \in Requests : InFlight(r)})
\* Every request was admitted and has ended, one of them by a cache hit after
\* a compression and the last one by an error response; none is in flight.
C2_Witness ==
  /\ \A r \in Requests : req[r].at = "done" /\ req[r].released = 1
  /\ cacheHits > 0
  /\ response.status \in {400, 500}
  /\ activeJobs = 0

\* What an Encoder call made for quality q returns.
IsEncoderOutput(buffer, q) ==
  \E n \in EncodedSizes, s \in {FullScale} \cup {scaleFactors[i] : i \in 1..Len(scaleFactors)} :
    buffer = EncodedBuffer(q, s, n)

\* C3: the size of every result compress returns is the length of its buffer,
\* and the buffer is what an Encoder call of the job returned, unmodified.
C3_SizeIsBufferLength ==
  pc = "returned" =>
    /\ result.size = BufferLength(result.buffer)
    /\ IsEncoderOutput(result.buffer, result.quality)
\* A result of the best-effort fallback.
C3_Witness == pc = "returned" /\ result.via = "fallback" /\ result.size > targetBytes

\* C4: in both modes and on every exit path, exactMatch is true exactly when
\* size equals targetBytes.
C4_ExactMatchIffTarget ==
  pc = "returned" => (result.exactMatch <=> result.size = targetBytes)
\* The route copy's best-available result, whose exactMatch is a literal.
C4_Witness ==
  pc = "returned" /\ variant = "route" /\ result.via = "fallback" /\ mode = "balanced"

\* C5: wherever a best trial is selected, of two candidates at equal distance
\* from the target the one with the larger quality is selected.
C5_TiePrefersLargerQuality ==
  (pc \in {"p1", "p2", "p3"} /\ AllDone) =>
    \A g \in 1..Len(batch) :
      LET results == Results(batch[g]) IN
      Len(results) > 0 =>
        \A i \in 1..Len(results) :
          Dist(results[i].size) = Dist(BestOf(results).size)
            => results[i].quality <= BestOf(results).quality

\* C6: when no phase satisfies the tolerance predicate, the result is a trial
\* at minimum distance from the target among all successful trials of
\* Phases 1, 2 and 3.
C6_FallbackIsClosestTrial ==
  (pc = "returned" /\ result.via = "fallback") =>
    \A d \in trialDists : Dist(result.size) <= d

\* C7: once the summed length of the encoded buffers exceeds
\* memoryLimitPerJob, compress throws; it never returns a result.
C7_MemoryCeilingAborts ==
  MemoryExceeded(memoryUsage) => pc # "returned"

\* C9: in Phase 3 the trials kept for scale factor s come from Encoder calls
\* made with scale factor s.
C9_ScaleTrialsEncodedAtScale ==
  pc = "p3" =>
    \A g \in 1..Len(batch) : \A i \in 1..Len(batch[g].calls) :
      batch[g].calls[i].st = "ok"
        => batch[g].calls[i].trial.buffer.encScale = batch[g].scaleFactor

\* C10: a result carries a scaleFactor exactly when it comes from the Phase 3
\* success path, and then its buffer is the output of the Encoder call made
\* at that scale and at result.quality.
C10_ScaleFactorMeansScaledBuffer ==
  pc = "returned" =>
    /\ (result.scaleFactor # NoScale) <=> (result.via = "phase3")
    /\ result.scaleFactor # NoScale =>
         /\ result.buffer.encScale = result.scaleFactor
         /\ result.buffer.encQuality = result.quality

\* C8: a request that fails validation is never counted in activeJobs: it
\* holds no concurrency slot at any point.
C8_InvalidNeverHoldsSlot ==
  \A r \in Requests : req[r].defect # "none" => ~InFlight(r)

\* The calls of the batch in flight, and those among them still pending.
Calls == UNION {{<<g, i>> : i \in 1..Len(batch[g].calls)} : g \in 1..Len(batch)}
PendingCalls == {c \in Calls : batch[c[1]].calls[c[2]].st = "pending"}
\* The calls whose Encoder call returned a buffer.
EncodedCalls == {c \in Calls : batch[c[1]].calls[c[2]].st \in {"ok", "dropped"}}

\* C11: once an Encoder call of the job has succeeded, compress does not
\* throw: it returns a result even if no trial is within tolerance, if
\* Phase 3 fails or if the deadline passes.
C11_ReturnsOnceATrialSucceeded ==
  /\ [](pc = "thrown" => trialDists = {})
  /\ [][pc' = "thrown" => EncodedCalls = {}]_vars
\* A best-effort result returned after the deadline passed, outside tolerance.
C11_Witness ==
  /\ pc = "returned"
  /\ result.via = "fallback"
  /\ timedOut
  /\ ~isWithinTolerance(result.size)

\* C12: if every Encoder call of the job fails, compress throws; a result it
\* returns never has an empty buffer.
C12_AllFailedThrows ==
  /\ [](pc = "returned" => (BufferLength(result.buffer) > 0 /\ trialDists # {}))
  /\ [][(pc = "p1" /\ pc' # pc /\ EncodedCalls = {})
          => (pc' = "thrown" /\ result'.via = "Initial quality testing failed")]_vars
\* compress threw because Phase 1 yielded no trial.
C12_Witness ==
  pc = "thrown" /\ result.via = "Initial quality testing failed" /\ memoryUsage = 0

\* C13: a batch that yields no successful trial does not fail the job: the
\* phase is abandoned and the next phase, or after Phase 3 the best-effort
\* termination, follows.
C13_EmptyBatchFallsThrough ==
  [][(pc \in {"p1", "p2", "p3"} /\ pc' # pc
        /\ \A g \in 1..Len(batch) : Len(Results(batch[g])) = 0)
      => pc' # "thrown"]_vars

\* C14: a failing Encoder call is absorbed in its batch, and the batch yields
\* exactly the trials whose Encoder call succeeded.
C14_BatchYieldsSucceededCalls ==
  \A g \in 1..Len(batch) :
    Len(Results(batch[g])) = Cardinality({c \in EncodedCalls : c[1] = g})

\* C15: once the deadline checkpoint before Phase 2's first iteration,
\* between Phase 2 iterations or before Phase 3 finds the budget exceeded, no
\* further Encoder call is dispatched and the best trial held is returned.
C15_DeadlineStopsSearch ==
  [][/\ timedOut => /\ pc' \in {pc, "returned"}
                    /\ pc' = pc => (bs' = bs /\ PendingCalls' \subseteq PendingCalls)
     /\ (~timedOut /\ timedOut' /\ pc' # "p3")
          => /\ pc' = "returned"
             /\ PendingCalls' = {}
             /\ \A d \in trialDists : Dist(result'.size) <= d]_vars
\* The checkpoint between two Phase 2 iterations found the deadline passed.
C15_Witness ==
  /\ pc = "returned"
  /\ timedOut
  /\ result.via = "fallback"
  /\ result.iterations > 2 * result.parallelTests

\* C16: no Phase 2 call is dispatched before every Phase 1 call has settled,
\* and no Phase 3 call unless Phase 2 has returned a result outside the
\* tolerance and the deadline check before Phase 3 passed.
C16_PhaseOrder ==
  /\ [](pc = "p2" => bs.currentBest # NoTrial)
  /\ [](pc = "p3" => (cj.binaryResult # NoTrial
                       /\ ~isWithinTolerance(cj.binaryResult.size)))
  /\ [][/\ (pc' = "p2" /\ pc # "p2") => (pc = "p1" /\ PendingCalls = {})
        /\ (pc' = "p3" /\ pc # "p3")
             => (pc \in {"p1", "p2"} /\ PendingCalls = {} /\ ~timedOut)]_vars
\* Phase 3 calls are in flight.
C16_Witness == pc = "p3" /\ PendingCalls # {} /\ bs = NoSearch

\* C17: the decision point of a batch runs only when every Encoder call of
\* the batch has completed or failed.
C17_DecisionAfterFanIn ==
  [][(pc \in {"p1", "p2", "p3"} /\ <<pc, bs, cj, result>>' # <<pc, bs, cj, result>>)
      => PendingCalls = {}]_vars
\* A Phase 2 batch has been decided and the next one is in flight.
C17_Witness == pc = "p2" /\ bs.iterations > cj.parallelTests /\ PendingCalls # {}

\* C18: a request whose cache check runs less than the TTL after a request
\* with the same bytes, format and mode stored its result is answered as a
\* cache hit with the stored buffer, the one the first request returned, and
\* goes through no compression.
C18_SecondRequestHitsCache ==
  [][\A r \in Requests :
       /\ (/\ req[r].at = "arrayBuffer" /\ req'[r].at # "arrayBuffer"
           /\ req[r].key \in DOMAIN compressionCache
           /\ now' - cacheTimestamps[req[r].key] < CACHE_TTL)
          => /\ req'[r].at = "done"
             /\ response' = [status |-> 200, cacheHit |-> TRUE,
                             body |-> compressionCache[req[r].key]]
             /\ compressionCache' = compressionCache
             /\ cacheTimestamps' = cacheTimestamps
       /\ (req[r].at = "compress" /\ req'[r].at = "done" /\ response'.status = 200)
          => /\ ~response'.cacheHit
             /\ \/ /\ req[r].key \in DOMAIN compressionCache'
                   /\ compressionCache'[req[r].key] = response'.body
                   /\ cacheTimestamps'[req[r].key] \in now..now'
                \/ /\ req[r].key \notin DOMAIN compressionCache'
                   /\ totalJobsProcessed % CleanupEvery = 0]_vars
\* The last response is a cache hit carrying a buffer the cache still holds.
C18_Witness ==
  /\ response.status = 200
  /\ response.cacheHit
  /\ \E k \in DOMAIN compressionCache : compressionCache[k] = response.body

\* C19: get(key) returns a buffer only if the key is present and its age is
\* below the ttl; a get on an expired entry removes it from both maps, counts
\* a miss and returns null, so that cleanup finds nothing to remove for it.
C19_GetServesOnlyFreshEntries ==
  /\ [](DOMAIN cache = DOMAIN timestamps)
  /\ [][ret'.op = "get" =>
          LET key == ret'.key IN
          IF key \in DOMAIN cache /\ now' - timestamps[key] < CACHE_CONFIG_ttl
          THEN /\ ret'.value = cache[key]
               /\ ret'.value # null
               /\ hitCount' = hitCount + 1
               /\ UNCHANGED <<cache, timestamps, missCount>>
          ELSE /\ ret'.value = null
               /\ missCount' = missCount + 1
               /\ hitCount' = hitCount
               /\ key \notin DOMAIN cache'
               /\ key \notin DOMAIN timestamps'
               /\ key \notin keysToDelete(now)'
               /\ \A k \in DOMAIN cache \ {key} :
                    /\ k \in DOMAIN cache'
                    /\ cache'[k] = cache[k]
                    /\ timestamps'[k] = timestamps[k]]_vars
\* A get found an expired entry, evicted it and returned null; an earlier get
\* was a hit and another entry stayed.
C19_Witness ==
  /\ ret.op = "get"
  /\ ret.value = null
  /\ ret.deleted = 1
  /\ ret.key \notin DOMAIN cache
  /\ missCount > 0
  /\ hitCount > 0
  /\ cache # << >>

\* C20: after cleanup no entry older than the ttl remains, and every entry
\* that was not older than the ttl is still there, buffer and timestamp
\* unchanged.
C20_CleanupSweepsExactlyTheExpired ==
  [][ret'.op = "cleanup" =>
       /\ \A k \in DOMAIN timestamps' : ~(now' - timestamps'[k] > CACHE_CONFIG_ttl)
       /\ DOMAIN cache' = DOMAIN timestamps'
       /\ \A k \in DOMAIN timestamps :
            IF now' - timestamps[k] > CACHE_CONFIG_ttl
            THEN k \notin DOMAIN cache'
            ELSE /\ k \in DOMAIN cache'
                 /\ cache'[k] = cache[k]
                 /\ timestamps'[k] = timestamps[k]
       /\ DOMAIN cache' \subseteq DOMAIN cache
       /\ UNCHANGED <<hitCount, missCount>>]_vars
\* A cleanup removed an entry and kept one that is exactly ttl old.
C20_Witness ==
  /\ ret.op = "cleanup"
  /\ ret.deleted > 0
  /\ \E k \in DOMAIN timestamps : now - timestamps[k] = CACHE_CONFIG_ttl

\* C21: generateKey is deterministic: two calls with the same bytes, format
\* and mode return the same key; and for the same bytes, two calls that
\* differ in the format or in the mode return different keys, so that the
\* four (format, mode) combinations of one image have four distinct keys and
\* an entry stored under one of them is not found under another.
C21_KeyPerFormatAndMode ==
  \A c \in KeyCalls, d \in KeyCalls :
    (keys[c] # NoKey /\ keys[d] # NoKey) =>
      /\ keyArgs[c] = keyArgs[d] => keys[c] = keys[d]
      /\ (/\ keyArgs[c].buffer = keyArgs[d].buffer
          /\ <<keyArgs[c].format, keyArgs[c].mode>> # <<keyArgs[d].format, keyArgs[d].mode>>)
         => keys[c] # keys[d]
\* Both calls have returned, for the same bytes and format in the two modes.
C21_Witness ==
  /\ keys[1] # NoKey
  /\ keys[2] # NoKey
  /\ keyArgs[1].buffer = keyArgs[2].buffer
  /\ keyArgs[1].format = keyArgs[2].format
  /\ keyArgs[1].mode = "exact"
  /\ keyArgs[2].mode = "balanced"
  /\ keys[1] # keys[2]

\* C22: when two jobs with the same bytes, format and mode are in flight
\* together and both miss the cache, the second to finish writes under their
\* key the very buffer the first one wrote. A job that is at compress() has
\* missed the cache; if the entry under its key was stamped at the present
\* clock value, it was written after that miss, by a job that ran beside it.
C22_RacingWritesAgree ==
  [][\A r \in Requests :
       LET cacheKey == generateCacheKey(r) IN
       (/\ req[r].at = "compress"
        /\ cacheKey \in DOMAIN compressionCache
        /\ cacheTimestamps[cacheKey] = now
        /\ req'[r].at = "done"
        /\ response'.status = 200)
       => response'.body = compressionCache[cacheKey]]_vars

\* C23: a Phase 2 batch is in flight only if, when it was dispatched, low <=
\* high held, the counted iterations were below heuristics.maxIterations and
\* the deadline had not passed; a batch whose best trial is within tolerance
\* ends the search with that trial; and the counted iterations, which grow by
\* the number of trials of each batch, never exceed maxIterations + 2.
C23_SearchGuardAndBudget ==
  /\ [](pc = "p2" =>
          /\ bs.low <= bs.high
          /\ bs.iterations < heuristics.maxIterations
          /\ ~timedOut
          /\ bs.iterations + Len(batch[1].calls) <= heuristics.maxIterations + 2)
  /\ [][(pc = "p2" /\ pc' # "p2") =>
          LET results == Results(batch[1])
              iterations == bs.iterations + Len(results)
          IN /\ iterations <= heuristics.maxIterations + 2
             /\ pc' = "returned" => result'.iterations = cj.totalIterations + iterations
             /\ pc' = "p3" => cj'.totalIterations = cj.totalIterations + iterations
             /\ (Len(results) > 0 /\ isWithinTolerance(BestOf(results).size)) =>
                  /\ pc' = "returned"
                  /\ result'.via = "phase2"
                  /\ result'.buffer = BestOf(results).buffer]_vars
\* A batch dispatched at maxIterations - 1 counted iterations has yielded
\* three trials: the count is about to reach maxIterations + 2.
C23_Witness ==
  /\ pc = "p2"
  /\ bs.iterations = heuristics.maxIterations - 1
  /\ Len(Results(batch[1])) = 3

\* C27: a result returned through a tolerance-satisfied exit (the return of
\* Phase 1/2 or of Phase 3 after the tolerance test) is within the tolerance
\* of the job's mode of targetBytes; in exact mode such a result has
\* exactMatch true, and a result with exactMatch false is returned in exact
\* mode only by the best-effort fallback.
C27_ToleranceExitsAreWithinTolerance ==
  pc = "returned" =>
    /\ result.via \in {"phase2", "phase3"} =>
         /\ Abs(result.size - targetBytes) <=
              (IF result.mode = "exact" THEN toleranceExact ELSE toleranceBalanced)
         /\ result.mode = "exact" => result.exactMatch
    /\ (result.mode = "exact" /\ ~result.exactMatch) => result.via = "fallback"
\* An exact-mode result of Phase 3's success path.
C27_Witness ==
  /\ pc = "returned"
  /\ result.mode = "exact"
  /\ result.via = "phase3"
  /\ result.exactMatch

Phase1Selected ==
  IF pc' = "p2" THEN bs'.currentBest
  ELSE IF pc' = "p3" THEN cj'.binaryResult
  ELSE [quality |-> result'.quality, size |-> result'.size, buffer |-> result'.buffer]

\* C29: Phase 1 is one batch of exactly four Encoder calls, with the
\* qualities e-10, e-5, e and e+5 for the estimated quality e, and the trial
\* selected when the batch has settled is one of the trials the batch yielded
\* and no yielded trial is closer to the target.
C29_FourProbesAndClosestSelected ==
  /\ [](pc = "p1" =>
          LET e == heuristics.estimatedQuality IN
          /\ Len(batch) = 1
          /\ Len(batch[1].calls) = 4
          /\ [i \in 1..4 |-> batch[1].calls[i].quality] = <<e - 10, e - 5, e, e + 5>>)
  /\ [][(pc = "p1" /\ pc' \notin {"p1", "thrown"}) =>
          LET initialResults == Results(batch[1]) IN
          /\ \E i \in 1..Len(initialResults) : initialResults[i] = Phase1Selected
          /\ \A i \in 1..Len(initialResults) :
               Dist(Phase1Selected.size) <= Dist(initialResults[i].size)]_vars
\* All four probes succeeded and the third, at the estimate itself, was
\* selected: Phase 2 searches from it.
C29_Witness ==
  /\ pc = "p2"
  /\ cj.parallelTests = 4
  /\ cj.totalIterations = 4
  /\ bs.iterations = 4
  /\ bs.currentBest.quality = heuristics.estimatedQuality

\* C30: when Phase 1 has settled and a trial it yielded is within tolerance
\* (so that its best trial is), the step that decides Phase 1 returns a trial
\* of Phase 1 that is within tolerance and than which none is closer, through
\* the tolerance exit, with no Encoder call dispatched or left in flight; and
\* a job that has returned takes no further step.
C30_Phase1HitReturnsAtOnce ==
  /\ [][(/\ pc = "p1"
         /\ pc' # "p1"
         /\ \E i \in 1..Len(batch[1].calls) :
              /\ batch[1].calls[i].st = "ok"
              /\ Abs(batch[1].calls[i].trial.size - targetBytes) <= tolerance)
        => /\ pc' = "returned"
           /\ result'.via = "phase2"
           /\ batch' = << >>
           /\ Abs(result'.size - targetBytes) <= tolerance
           /\ \E i \in 1..Len(batch[1].calls) :
                /\ batch[1].calls[i].st = "ok"
                /\ batch[1].calls[i].trial.buffer = result'.buffer
                /\ batch[1].calls[i].trial.quality = result'.quality
                /\ batch[1].calls[i].trial.size = result'.size
           /\ \A i \in 1..Len(batch[1].calls) :
                batch[1].calls[i].st = "ok" =>
                  Abs(result'.size - targetBytes) <=
                    Abs(batch[1].calls[i].trial.size - targetBytes)]_vars
  /\ [][pc # "returned"]_vars
\* compress has returned from Phase 1: the result counts only its trials.
C30_Witness ==
  /\ pc = "returned"
  /\ result.via = "phase2"
  /\ result.parallelTests = 4
  /\ result.iterations = 2 * result.parallelTests
  /\ result.quality = heuristics.estimatedQuality - 5

\* The requests that were admitted and have finished.
Finished == {r \in Requests : req[r].at = "done"}

\* C26: the sweep keeps pace with the processed requests: for every k, once
\* k times the cleanup interval of requests have been admitted and have
\* finished, cleanupCache has been called at least k times.
C26_CleanupOncePerInterval ==
  \A k \in 1..NumRequests :
    Cardinality(Finished) >= CleanupEvery * k => cleanups >= k

\* C24: the complexity score of every valid ImageMetadata (positive width,
\* height and size, 1 to 4 channels, with or without alpha) is at least 0
\* and at most 1.
C24_ComplexityInUnitInterval ==
  \A c \in HeuristicsCalls :
    generated[c] # NoHeuristics =>
      /\ AtMost(Whole(0), generated[c].imageComplexity)
      /\ AtMost(generated[c].imageComplexity, Whole(1))

\* C25: estimatedQuality is an integer from qualityBounds.min = 60 to
\* qualityBounds.max = 95, and of two images with the same bytes-per-pixel
\* ratio the one of higher complexity never has the higher estimate.
C25_EstimateBoundedAndMonotone ==
  \A c \in HeuristicsCalls, d \in HeuristicsCalls :
    (generated[c] # NoHeuristics /\ generated[d] # NoHeuristics) =>
      /\ generated[c].estimatedQuality \in 60..95
      /\ (/\ sizeRatio(imageMetadata[c]) = sizeRatio(imageMetadata[d])
          /\ AtMost(generated[c].imageComplexity, generated[d].imageComplexity))
         => generated[c].estimatedQuality >= generated[d].estimatedQuality
\* Two images of the same bytes-per-pixel ratio: the second is the more
\* complex and its estimate is the lower, the bounds reached by neither.
C25_Witness ==
  /\ generated[1] # NoHeuristics
  /\ generated[2] # NoHeuristics
  /\ sizeRatio(imageMetadata[1]) = sizeRatio(imageMetadata[2])
  /\ imageMetadata[1].size # imageMetadata[2].size
  /\ ~AtMost(generated[2].imageComplexity, generated[1].imageComplexity)
  /\ generated[1].estimatedQuality > generated[2].estimatedQuality
  /\ generated[2].estimatedQuality > 60

\* The trial parallelBinarySearch returns, read off the state after the step
\* in which it returns: compress either goes on to Phase 3 with it or
\* returns a result built from it.
BinaryResult ==
  IF pc' = "p3" THEN cj'.binaryResult
  ELSE [quality |-> result'.quality, size |-> result'.size, buffer |-> result'.buffer]

\* C31: on its tolerance exit and on every other exit, the trial
\* parallelBinarySearch returns is at minimum distance from the target among
\* all the trials that Phase 1 and the Phase 2 batches run so far have
\* yielded.
C31_BinaryResultIsClosestSoFar ==
  [][(pc \in {"p1", "p2"} /\ pc' \in {"p3", "returned"}) =>
       \A d \in trialDists : Abs(BinaryResult.size - targetBytes) <= d]_vars
\* Phase 2 ran a batch, missed tolerance and handed its best trial to Phase 3.
C31_Witness ==
  /\ pc = "p3"
  /\ cj.totalIterations > 2 * cj.parallelTests
  /\ Cardinality(trialDists) >= 2
  /\ \A c \in Calls : batch[c[1]].calls[c[2]].st = "pending"
  /\ \A d \in trialDists : Abs(cj.binaryResult.size - targetBytes) <= d

\* C32: from one Phase 2 batch to the next low does not decrease and high
\* does not increase; whenever a midpoint is computed low is at least 1 and
\* high at most 100; and when a batch had three probes and all three
\* succeeded, high - low of the next batch is smaller.
C32_BoundsNarrow ==
  /\ [](pc = "p2" => (bs.low >= 1 /\ bs.high <= 100))
  /\ [][(pc = "p2" /\ pc' = "p2") =>
          /\ bs'.low >= bs.low
          /\ bs'.high <= bs.high
          /\ (/\ PendingCalls = {}
              /\ PendingCalls' # {}
              /\ Len(batch[1].calls) = 3
              /\ \A i \in 1..3 : batch[1].calls[i].st = "ok")
             => bs'.high - bs'.low < bs.high - bs.low]_vars
\* The second batch of a search whose first batch yielded its three trials.
C32_Witness ==
  /\ pc = "p2"
  /\ cj.parallelTests = 1
  /\ bs.iterations = 4
  /\ bs.high - bs.low < 20
  /\ bs.low < bs.high

\* C33: if every Encoder call settles, compress ends by returning or by
\* throwing, whatever the reads of the clock find: each pass of the Phase 2
\* loop that is followed by another has raised the counted iterations by at
\* least one, and Phases 1 and 3 dispatch at most four calls and three calls
\* a scale, once.
C33_CompressTerminates ==
  /\ <>(pc \in {"returned", "thrown"})
  /\ [][(pc = "p2" /\ pc' = "p2" /\ PendingCalls = {})
          => bs'.iterations >= bs.iterations + 1]_vars
  /\ [](pc = "p1" => (Len(batch) = 1 /\ Len(batch[1].calls) <= 4))
  /\ [](pc = "p3" => /\ Len(batch) <= Len(AllScaleFactors)
                     /\ \A g \in 1..Len(batch) : Len(batch[g].calls) = 3)
  /\ [][pc = "p3" => pc' \in {"p3", "returned", "thrown"}]_vars
\* compress has returned although no read of the clock found the deadline
\* passed: the budget and the bounds ended the search, and Phase 3 ran.
C33_Witness ==
  /\ pc = "returned"
  /\ ~timedOut
  /\ result.via = "fallback"
  /\ result.iterations > 2 * result.parallelTests

\* C34: the iterations field of a result is the number of trials the job's
\* Encoder calls yielded, each counted once. For a job that returns straight
\* after Phase 1 these are the trials of the Phase 1 batch.
C34_IterationsCountTrialsOnce ==
  [][(pc = "p1" /\ pc' = "returned") =>
       result'.iterations = Len(Results(batch[1]))]_vars

\* C35: a request that is rejected as busy, fails validation or ends with an
\* error leaves compressionCache and cacheTimestamps as they were. The maps
\* change only in the step in which compress() has returned for a request
\* and the request is answered 200: the entry written is its response body
\* under the key of its bytes, format and mode, and every other entry of the
\* maps was there before.
C35_CacheWrittenOnlyOnSuccess ==
  [][\A r \in Requests :
       /\ (/\ req'[r] # req[r]
           /\ req'[r].at \in {"done", "rejected"}
           /\ response'.status # 200)
          => UNCHANGED <<compressionCache, cacheTimestamps>>
       /\ (/\ req'[r] # req[r]
           /\ <<compressionCache, cacheTimestamps>>' # <<compressionCache, cacheTimestamps>>)
          => /\ req[r].at = "compress"
             /\ req'[r].at = "done"
             /\ response'.status = 200
             /\ ~response'.cacheHit
             /\ DOMAIN compressionCache' = DOMAIN cacheTimestamps'
             /\ \A k \in DOMAIN compressionCache' :
                  IF k = req[r].key
                  THEN compressionCache'[k] = response'.body
                  ELSE /\ k \in DOMAIN compressionCache
                       /\ compressionCache'[k] = compressionCache[k]
                       /\ cacheTimestamps'[k] = cacheTimestamps[k]]_vars
\* A request has ended with an error while the cache held an entry.
C35_Witness ==
  /\ response.status = 500
  /\ DOMAIN compressionCache # {}
  /\ \E r \in Requests : req[r].at = "done"

\* C36: after any sequence of set, get, delete, cleanup and clear, the buffer
\* map and the timestamp map of a CompressionCache have the same key set.
C36_MapsHaveSameKeys == DOMAIN cache = DOMAIN timestamps
\* cleanup has removed an entry and left another in both maps.
C36_Witness ==
  /\ ret.op = "cleanup"
  /\ ret.deleted > 0
  /\ DOMAIN cache # {}
  /\ DOMAIN cache = DOMAIN timestamps

\* C37: get and cleanup apply one expiry predicate: a get of a stored entry
\* at time t evicts it and returns null exactly when cleanup at time t would
\* remove the entry.
C37_GetAndCleanupAgree ==
  [][(ret'.op = "get" /\ ret'.key \in DOMAIN cache)
       => (ret'.deleted = 1 <=> ret'.key \in keysToDelete(now'))]_vars

\* C38: every call of get adds one to exactly one of hitCount and missCount,
\* to hitCount exactly when it returns a buffer; set, delete and cleanup leave
\* both counters as they were and clear sets both to 0, so that hitCount +
\* missCount is the number of get calls since the last clear.
C38_CountersCountGets ==
  /\ [](hitCount + missCount = getCalls)
  /\ [][/\ ret'.op = "get" =>
             IF ret'.value # null
             THEN hitCount' = hitCount + 1 /\ missCount' = missCount
             ELSE hitCount' = hitCount /\ missCount' = missCount + 1
        /\ ret'.op \in {"set", "delete", "cleanup"}
             => UNCHANGED <<hitCount, missCount>>
        /\ ret'.op = "clear" => (hitCount' = 0 /\ missCount' = 0)]_vars
\* Two gets have been counted, a hit and a miss, and a set made after them.
C38_Witness ==
  /\ getCalls = 2
  /\ hitCount = 1
  /\ missCount = 1
  /\ ret.op = "set"
  /\ cache # << >>

\* C39: set(key, buffer) replaces any entry of the key and restarts its
\* lifetime, and a get does not extend it: set leaves the key with the buffer
\* of this call and the time of this call and touches no other entry, a get
\* that returns a buffer leaves both maps as they were, and a get of the key
\* less than the ttl after the time its entry carries returns the buffer the
\* entry carries, the one of the last set.
C39_SetReplacesAndRestarts ==
  [][/\ ret'.op = "set" =>
          /\ DOMAIN cache' = DOMAIN cache \cup {ret'.key}
          /\ DOMAIN timestamps' = DOMAIN timestamps \cup {ret'.key}
          /\ cache'[ret'.key] = ret'.value
          /\ timestamps'[ret'.key] = now'
          /\ \A k \in DOMAIN cache \ {ret'.key} :
               cache'[k] = cache[k] /\ timestamps'[k] = timestamps[k]
     /\ (ret'.op = "get" /\ ret'.value # null) => UNCHANGED <<cache, timestamps>>
     /\ (/\ ret'.op = "get"
         /\ ret'.key \in DOMAIN cache
         /\ now' - timestamps[ret'.key] < CACHE_CONFIG_ttl)
          => ret'.value = cache[ret'.key]]_vars
\* A set has replaced the entry of its key at a later time and restarted its
\* lifetime, after a get had returned a buffer.
C39_Witness ==
  /\ ret.op = "set"
  /\ ret.deleted = 1
  /\ hitCount > 0
  /\ cache[ret.key] = ret.value
  /\ timestamps[ret.key] = now
  /\ now > 1
====
